---- MODULE Spec2Model ----
(***************************************************************************)
(* Model of channel<T, N> (src/channel.hpp): a ring buffer of N cells or a *)
(* single value cell, one mutex, two condition variables and an            *)
(* unsynchronised closed_ flag, used by producer and consumer threads.     *)
(* Every step of a thread is one action: the unsynchronised read of        *)
(* closed_, the acquisition of mutex_, the evaluation of the wait          *)
(* predicate with the critical section that follows it, and the            *)
(* notification after the lock is released.  The element type is int (as   *)
(* in main.cpp's producer/consumer): moving out of a cell leaves its value *)
(* in place.                                                               *)
(***************************************************************************)
EXTENDS Integers, Sequences, FiniteSets, TLC

\* Largest template parameter N drawn at construction (N in 0..MaxN).
MaxN == 3
\* Total number of put calls that pass the closed_ check.
MaxItems == 3
\* Total number of get calls made on a buffered_channel.
MaxGets == 3

Producers == {"p1", "p2"}
Consumers == {"c1", "c2"}
Threads == Producers \cup Consumers

NoThread == "none"

VARIABLES
  N,           \* template parameter: buf_.size()
  buf_,        \* std::array<T, N>, indexed 0..N-1
  in_,         \* next cell to write
  out_,        \* next cell to read
  val_,        \* the unbuffered cell
  has_val_,    \* the unbuffered cell holds a value
  closed_,     \* closed flag (read and written without mutex_)
  mutex_,      \* owner of mutex_, or NoThread
  consumers_,  \* threads waiting on condition variable consumers_
  producers_,  \* threads waiting on condition variable producers_
  pc,          \* position of each thread in its current call
  op,          \* the call a thread is in, or returned from last
  res,         \* result of the last call that returned ("none" while in a call)
  arg,         \* the item a producer passed to its last put
  nextItem,    \* items are numbered by put call
  sent,        \* history: items in the order they were deposited
  received,    \* history: items in the order they were taken
  sentAtClose, \* history: Len(sent) when closed_ first became true
  ready_,      \* unbuffered_channel::ready_
  cv_,         \* threads waiting on the single condition variable cv_ of
               \* unbuffered_channel and of buffered_channel
  observed     \* what the last is_closed() call returned (FALSE before any)

vars == <<N, buf_, in_, out_, val_, has_val_, closed_, mutex_, consumers_,
          producers_, pc, op, res, arg, nextItem, sent, received, sentAtClose,
          ready_, cv_, observed>>

chan == <<N, buf_, in_, out_, val_, has_val_>>
sync == <<mutex_, consumers_, producers_>>
hist == <<sent, received, sentAtClose>>
\* State that the operations of channel<T, N> other than is_closed() leave alone.
rest == <<ready_, cv_, observed>>

----------------------------------------------------------------------------
\* channel(): all members value-initialised.
Init ==
  /\ N \in 0..MaxN
  /\ buf_ = [i \in 0..(N - 1) |-> 0]
  /\ in_ = 0
  /\ out_ = 0
  /\ val_ = 0
  /\ has_val_ = FALSE
  /\ closed_ = FALSE
  /\ mutex_ = NoThread
  /\ consumers_ = {}
  /\ producers_ = {}
  /\ pc = [t \in Threads |-> "idle"]
  /\ op = [t \in Threads |-> "none"]
  /\ res = [t \in Threads |-> "none"]
  /\ arg = [t \in Producers |-> 0]
  /\ nextItem = 1
  /\ sent = <<>>
  /\ received = <<>>
  /\ sentAtClose = 0
  /\ ready_ = FALSE
  /\ cv_ = {}
  /\ observed = FALSE

----------------------------------------------------------------------------
\* Pure queries of the channel state.

\* Mutation: the ring is never seen empty.
is_empty_never == FALSE

is_empty == in_ = out_

\* Mutation: the ring is never seen full.
is_full_never == FALSE

\* Mutation: the ring is full one item early.
is_full_early == (in_ + 1) % N = out_ \/ (in_ + 2) % N = out_

is_full == (in_ + 1) % N = out_

\* Mutation: every channel with at least one cell is buffered.
is_buffered_from_one == N >= 1

is_buffered == N > 1

\* Mutation: the index is advanced without wrapping around.
Advance_nowrap(i) == i + 1

\* (i + 1) % buf_.size(): the index after i in the ring.
Advance(i) == (i + 1) % N

\* A thread leaving a condition variable's wait set must reacquire mutex_
\* and re-evaluate its predicate.
Relock(p) ==
  IF p = "put_blocked" THEN "put_lock"
  ELSE IF p = "get_blocked" THEN "get_lock"
  ELSE p

\* Mutation: the notification reaches no waiting thread.
NotifyAll_lost(ws, t, q) == [pc EXCEPT ![t] = q]

\* pc after notify_all on the wait set ws, the notifying thread t moving to q.
NotifyAll(ws, t, q) ==
  [u \in Threads |-> IF u = t THEN q
                     ELSE IF u \in ws THEN Relock(pc[u])
                     ELSE pc[u]]

\* pc after waking the single thread w, the notifying thread t moving to q.
NotifyOne(w, t, q) ==
  [u \in Threads |-> IF u = t THEN q
                     ELSE IF u = w THEN Relock(pc[u])
                     ELSE pc[u]]

\* std::unique_lock's constructor: blocks until mutex_ is free.
Lock(t, from, to) ==
  /\ pc[t] = from
  /\ mutex_ = NoThread
  /\ mutex_' = t
  /\ pc' = [pc EXCEPT ![t] = to]

----------------------------------------------------------------------------
\* Mutation: put without the closed_ check.
put_unchecked(t) ==
  /\ t \in Producers
  /\ pc[t] = "idle"
  /\ nextItem <= MaxItems
  /\ arg' = [arg EXCEPT ![t] = nextItem]
  /\ nextItem' = nextItem + 1
  /\ op' = [op EXCEPT ![t] = "put"]
  /\ res' = [res EXCEPT ![t] = "none"]
  /\ pc' = [pc EXCEPT ![t] = "put_lock"]
  /\ UNCHANGED <<chan, closed_, sync, hist>>
  /\ UNCHANGED rest

\* put(T&&): the closed_ check and the dispatch on is_buffered().
put(t) ==
  /\ t \in Producers
  /\ pc[t] = "idle"
  /\ IF closed_
       THEN /\ op' = [op EXCEPT ![t] = "put"]
            /\ res' = [res EXCEPT ![t] = "runtime_error"]
            /\ UNCHANGED <<pc, arg, nextItem>>
       ELSE /\ nextItem <= MaxItems
            /\ arg' = [arg EXCEPT ![t] = nextItem]
            /\ nextItem' = nextItem + 1
            /\ op' = [op EXCEPT ![t] = "put"]
            /\ res' = [res EXCEPT ![t] = "none"]
            /\ pc' = [pc EXCEPT ![t] = "put_lock"]
  /\ UNCHANGED <<chan, closed_, sync, hist>>
  /\ UNCHANGED rest

put_buffered(t) ==
  /\ t \in Producers
  /\ is_buffered
  /\ \/ /\ Lock(t, "put_lock", "put_wait")
        /\ UNCHANGED <<chan, closed_, consumers_, producers_, op, res, arg,
                       nextItem, hist>>
     \/ /\ pc[t] = "put_wait"       \* predicate false: wait on producers_
        /\ is_full
        /\ mutex_' = NoThread
        /\ producers_' = producers_ \cup {t}
        /\ pc' = [pc EXCEPT ![t] = "put_blocked"]
        /\ UNCHANGED <<chan, closed_, consumers_, op, res, arg, nextItem, hist>>
     \/ /\ pc[t] = "put_wait"       \* predicate true: deposit and unlock
        /\ ~is_full
        /\ buf_' = [buf_ EXCEPT ![in_] = arg[t]]
        /\ in_' = Advance(in_)
        /\ sent' = Append(sent, arg[t])
        /\ mutex_' = NoThread
        /\ pc' = [pc EXCEPT ![t] = "put_notify"]
        /\ UNCHANGED <<N, out_, val_, has_val_, closed_, consumers_,
                       producers_, op, res, arg, nextItem, received, sentAtClose>>
     \/ /\ pc[t] = "put_notify"     \* consumers_.notify_all()
        /\ pc' = NotifyAll(consumers_, t, "idle")
        /\ consumers_' = {}
        /\ res' = [res EXCEPT ![t] = "ok"]
        /\ UNCHANGED <<chan, closed_, mutex_, producers_, op, arg, nextItem,
                       hist>>
  /\ UNCHANGED rest

put_unbuffered(t) ==
  /\ t \in Producers
  /\ ~is_buffered
  /\ \/ /\ Lock(t, "put_lock", "put_wait")
        /\ UNCHANGED <<chan, closed_, consumers_, producers_, op, res, arg,
                       nextItem, hist>>
     \/ /\ pc[t] = "put_wait"
        /\ has_val_
        /\ mutex_' = NoThread
        /\ producers_' = producers_ \cup {t}
        /\ pc' = [pc EXCEPT ![t] = "put_blocked"]
        /\ UNCHANGED <<chan, closed_, consumers_, op, res, arg, nextItem, hist>>
     \/ /\ pc[t] = "put_wait"
        /\ ~has_val_
        /\ val_' = arg[t]
        /\ has_val_' = TRUE
        /\ sent' = Append(sent, arg[t])
        /\ mutex_' = NoThread
        /\ pc' = [pc EXCEPT ![t] = "put_notify"]
        /\ UNCHANGED <<N, buf_, in_, out_, closed_, consumers_, producers_,
                       op, res, arg, nextItem, received, sentAtClose>>
     \/ /\ pc[t] = "put_notify"
        /\ pc' = NotifyAll(consumers_, t, "idle")
        /\ consumers_' = {}
        /\ res' = [res EXCEPT ![t] = "ok"]
        /\ UNCHANGED <<chan, closed_, mutex_, producers_, op, arg, nextItem,
                       hist>>
  /\ UNCHANGED rest

----------------------------------------------------------------------------
\* get(): the closed_ check and the dispatch on is_buffered().
get(t) ==
  /\ t \in Consumers
  /\ pc[t] = "idle"
  /\ op' = [op EXCEPT ![t] = "get"]
  /\ IF closed_
       THEN /\ res' = [res EXCEPT ![t] = "channel_closed"]
            /\ UNCHANGED pc
       ELSE /\ res' = [res EXCEPT ![t] = "none"]
            /\ pc' = [pc EXCEPT ![t] = "get_lock"]
  /\ UNCHANGED <<chan, closed_, sync, arg, nextItem, hist>>
  /\ UNCHANGED rest

get_buffered(t) ==
  /\ t \in Consumers
  /\ is_buffered
  /\ \/ /\ Lock(t, "get_lock", "get_wait")
        /\ UNCHANGED <<chan, closed_, consumers_, producers_, op, res, arg,
                       nextItem, hist>>
     \/ /\ pc[t] = "get_wait"
        /\ is_empty
        /\ mutex_' = NoThread
        /\ consumers_' = consumers_ \cup {t}
        /\ pc' = [pc EXCEPT ![t] = "get_blocked"]
        /\ UNCHANGED <<chan, closed_, producers_, op, res, arg, nextItem, hist>>
     \/ /\ pc[t] = "get_wait"
        /\ ~is_empty
        /\ received' = Append(received, buf_[out_])
        /\ out_' = Advance(out_)
        /\ mutex_' = NoThread
        /\ pc' = [pc EXCEPT ![t] = "get_notify"]
        /\ UNCHANGED <<N, buf_, in_, val_, has_val_, closed_, consumers_,
                       producers_, op, res, arg, nextItem, sent, sentAtClose>>
     \/ /\ pc[t] = "get_notify"     \* producers_.notify_all()
        /\ pc' = NotifyAll(producers_, t, "idle")
        /\ producers_' = {}
        /\ res' = [res EXCEPT ![t] = "ok"]
        /\ UNCHANGED <<chan, closed_, mutex_, consumers_, op, arg, nextItem,
                       hist>>
  /\ UNCHANGED rest

get_unbuffered(t) ==
  /\ t \in Consumers
  /\ ~is_buffered
  /\ \/ /\ Lock(t, "get_lock", "get_wait")
        /\ UNCHANGED <<chan, closed_, consumers_, producers_, op, res, arg,
                       nextItem, hist>>
     \/ /\ pc[t] = "get_wait"
        /\ ~has_val_
        /\ mutex_' = NoThread
        /\ consumers_' = consumers_ \cup {t}
        /\ pc' = [pc EXCEPT ![t] = "get_blocked"]
        /\ UNCHANGED <<chan, closed_, producers_, op, res, arg, nextItem, hist>>
     \/ /\ pc[t] = "get_wait"
        /\ has_val_
        /\ received' = Append(received, val_)
        /\ has_val_' = FALSE
        /\ mutex_' = NoThread
        /\ pc' = [pc EXCEPT ![t] = "get_notify"]
        /\ UNCHANGED <<N, buf_, in_, out_, val_, closed_, consumers_,
                       producers_, op, res, arg, nextItem, sent, sentAtClose>>
     \/ /\ pc[t] = "get_notify"
        /\ pc' = NotifyAll(producers_, t, "idle")
        /\ producers_' = {}
        /\ res' = [res EXCEPT ![t] = "ok"]
        /\ UNCHANGED <<chan, closed_, mutex_, consumers_, op, arg, nextItem,
                       hist>>
  /\ UNCHANGED rest

----------------------------------------------------------------------------
\* try_get(): the closed_ check and the dispatch on is_buffered().
try_get(t) ==
  /\ t \in Consumers
  /\ pc[t] = "idle"
  /\ op' = [op EXCEPT ![t] = "try_get"]
  /\ IF closed_
       THEN /\ res' = [res EXCEPT ![t] = "channel_closed"]
            /\ UNCHANGED pc
       ELSE /\ res' = [res EXCEPT ![t] = "none"]
            /\ pc' = [pc EXCEPT ![t] = "try_lock"]
  /\ UNCHANGED <<chan, closed_, sync, arg, nextItem, hist>>
  /\ UNCHANGED rest

\* Mutation: the owns_lock() test is inverted, so the thread that got the
\* lock returns would_block holding it.
TryLock_inverted(t) ==
  /\ pc[t] = "try_lock"
  /\ IF mutex_ = NoThread
       THEN /\ mutex_' = t
            /\ res' = [res EXCEPT ![t] = "would_block"]
            /\ pc' = [pc EXCEPT ![t] = "idle"]
       ELSE /\ pc' = [pc EXCEPT ![t] = "try_body"]
            /\ UNCHANGED <<res, mutex_>>
  /\ UNCHANGED <<chan, closed_, consumers_, producers_, op, arg, nextItem, hist>>

\* chan_lock lock(mutex_, std::try_to_lock) and the owns_lock() test.
TryLock(t) ==
  /\ pc[t] = "try_lock"
  /\ IF mutex_ = NoThread
       THEN /\ mutex_' = t
            /\ pc' = [pc EXCEPT ![t] = "try_body"]
            /\ UNCHANGED res
       ELSE /\ res' = [res EXCEPT ![t] = "would_block"]
            /\ pc' = [pc EXCEPT ![t] = "idle"]
            /\ UNCHANGED mutex_
  /\ UNCHANGED <<chan, closed_, consumers_, producers_, op, arg, nextItem, hist>>

try_get_buffered(t) ==
  /\ t \in Consumers
  /\ is_buffered
  /\ \/ TryLock(t)
     \/ /\ pc[t] = "try_body"
        /\ is_empty
        /\ mutex_' = NoThread
        /\ res' = [res EXCEPT ![t] = "would_block"]
        /\ pc' = [pc EXCEPT ![t] = "idle"]
        /\ UNCHANGED <<chan, closed_, consumers_, producers_, op, arg,
                       nextItem, hist>>
     \/ /\ pc[t] = "try_body"
        /\ ~is_empty
        /\ received' = Append(received, buf_[out_])
        /\ out_' = Advance(out_)
        /\ mutex_' = NoThread
        /\ pc' = [pc EXCEPT ![t] = "try_notify"]
        /\ UNCHANGED <<N, buf_, in_, val_, has_val_, closed_, consumers_,
                       producers_, op, res, arg, nextItem, sent, sentAtClose>>
     \/ /\ pc[t] = "try_notify"     \* producers_.notify_one()
        /\ \/ /\ producers_ = {}
              /\ pc' = [pc EXCEPT ![t] = "idle"]
              /\ UNCHANGED producers_
           \/ \E w \in producers_ :
                /\ pc' = NotifyOne(w, t, "idle")
                /\ producers_' = producers_ \ {w}
        /\ res' = [res EXCEPT ![t] = "ok"]
        /\ UNCHANGED <<chan, closed_, mutex_, consumers_, op, arg, nextItem,
                       hist>>
  /\ UNCHANGED rest

try_get_unbuffered(t) ==
  /\ t \in Consumers
  /\ ~is_buffered
  /\ \/ TryLock(t)
     \/ /\ pc[t] = "try_body"
        /\ ~has_val_
        /\ mutex_' = NoThread
        /\ res' = [res EXCEPT ![t] = "would_block"]
        /\ pc' = [pc EXCEPT ![t] = "idle"]
        /\ UNCHANGED <<chan, closed_, consumers_, producers_, op, arg,
                       nextItem, hist>>
     \/ /\ pc[t] = "try_body"
        /\ has_val_
        /\ received' = Append(received, val_)
        /\ has_val_' = FALSE
        /\ mutex_' = NoThread
        /\ pc' = [pc EXCEPT ![t] = "try_notify"]
        /\ UNCHANGED <<N, buf_, in_, out_, val_, closed_, consumers_,
                       producers_, op, res, arg, nextItem, sent, sentAtClose>>
     \/ /\ pc[t] = "try_notify"     \* producers_.notify_all()
        /\ pc' = NotifyAll(producers_, t, "idle")
        /\ producers_' = {}
        /\ res' = [res EXCEPT ![t] = "ok"]
        /\ UNCHANGED <<chan, closed_, mutex_, consumers_, op, arg, nextItem,
                       hist>>
  /\ UNCHANGED rest

----------------------------------------------------------------------------
\* Mutation: close empties the channel.
close_drop(t) ==
  /\ pc[t] = "idle"
  /\ closed_' = TRUE
  /\ out_' = in_
  /\ has_val_' = FALSE
  /\ sentAtClose' = IF closed_ THEN sentAtClose ELSE Len(sent)
  /\ UNCHANGED <<N, buf_, in_, val_, sync, pc, op, res, arg, nextItem, sent,
                 received>>
  /\ UNCHANGED rest

\* Mutation: close flips the flag.
close_toggle(t) ==
  /\ pc[t] = "idle"
  /\ closed_' = ~closed_
  /\ sentAtClose' = IF closed_ THEN sentAtClose ELSE Len(sent)
  /\ UNCHANGED <<chan, sync, pc, op, res, arg, nextItem, sent, received>>
  /\ UNCHANGED rest

\* close(): a plain store to closed_, without mutex_ and without notifying.
close(t) ==
  /\ pc[t] = "idle"
  /\ closed_' = TRUE
  /\ sentAtClose' = IF closed_ THEN sentAtClose ELSE Len(sent)
  /\ UNCHANGED <<chan, sync, pc, op, res, arg, nextItem, sent, received>>
  /\ UNCHANGED rest

\* is_closed(): a plain load of closed_, without mutex_.
is_closed(t) ==
  /\ pc[t] = "idle"
  /\ observed' = closed_
  /\ UNCHANGED <<chan, closed_, sync, pc, op, res, arg, nextItem, hist,
                 ready_, cv_>>

\* std::condition_variable::wait may return spuriously; wait(lock, pred)
\* then reacquires mutex_ and evaluates the predicate again.
spurious_wakeup(t) ==
  /\ t \in consumers_ \cup producers_
  /\ consumers_' = consumers_ \ {t}
  /\ producers_' = producers_ \ {t}
  /\ pc' = [pc EXCEPT ![t] = Relock(pc[t])]
  /\ UNCHANGED <<chan, closed_, mutex_, op, res, arg, nextItem, hist>>
  /\ UNCHANGED rest

----------------------------------------------------------------------------
Next ==
  \E t \in Threads :
    \/ put(t)
    \/ put_buffered(t)
    \/ put_unbuffered(t)
    \/ get(t)
    \/ get_buffered(t)
    \/ get_unbuffered(t)
    \/ try_get(t)
    \/ try_get_buffered(t)
    \/ try_get_unbuffered(t)
    \/ close(t)
    \/ spurious_wakeup(t)

Spec == Init /\ [][Next]_vars

\* Steps of a call in progress: a thread that can run is eventually scheduled.
\* Starting a new call, close() and spurious wake-ups are never forced.
Step(t) ==
  \/ put_buffered(t)
  \/ put_unbuffered(t)
  \/ get_buffered(t)
  \/ get_unbuffered(t)
  \/ try_get_buffered(t)
  \/ try_get_unbuffered(t)

FairSpec == Spec /\ \A t \in Threads : SF_vars(Step(t))

\* main.cpp's workload: every producer thread runs single_producer (one put),
\* every consumer thread runs single_consumer (one get), nobody closes.
single_producer(t) ==
  /\ op[t] = "none"
  /\ put(t)

single_consumer(t) ==
  /\ op[t] = "none"
  /\ get(t)

DriverNext ==
  \E t \in Threads :
    \/ single_producer(t)
    \/ single_consumer(t)
    \/ put_buffered(t)
    \/ put_unbuffered(t)
    \/ get_buffered(t)
    \/ get_unbuffered(t)
    \/ spurious_wakeup(t)

\* Every thread main() starts gets to make its call, and a thread that can
\* take a step of its call again and again eventually takes it.
DriverSpec ==
  /\ Init
  /\ [][DriverNext]_vars
  /\ \A t \in Threads : WF_vars(single_producer(t) \/ single_consumer(t))
  /\ \A t \in Threads : SF_vars(Step(t))

\* The operations of channel<T, N> together with the is_closed() query.
QueryNext ==
  \/ Next
  \/ \E t \in Threads : is_closed(t)

\* One channel of each shape: channel<T, 1> (cell) and channel<T, 2> (ring).
QueryInit == Init /\ N \in {1, 2}

QuerySpec == QueryInit /\ [][QueryNext]_vars

----------------------------------------------------------------------------
(***************************************************************************)
(* unbuffered_channel<T> (src/unbuffered_channel.hpp): the cell val_, the  *)
(* flag ready_, mutex_ and ONE condition variable cv_ on which producers   *)
(* and consumers both wait and which both notify with notify_one.  Every   *)
(* thread makes one call: equal numbers of put and get calls.              *)
(***************************************************************************)
UnbufferedInit ==
  /\ Init
  /\ N = 0

\* std::condition_variable::wait on cv_: unlock and join the wait set.
WaitOnCv(t, blocked) ==
  /\ mutex_' = NoThread
  /\ cv_' = cv_ \cup {t}
  /\ pc' = [pc EXCEPT ![t] = blocked]

\* cv_.notify_one() by thread t, which then returns: one waiting thread, if
\* there is any, leaves the wait set.
NotifyOneOnCv(t) ==
  /\ \/ /\ cv_ = {}
        /\ pc' = [pc EXCEPT ![t] = "idle"]
        /\ UNCHANGED cv_
     \/ \E w \in cv_ :
          /\ pc' = NotifyOne(w, t, "idle")
          /\ cv_' = cv_ \ {w}
  /\ res' = [res EXCEPT ![t] = "ok"]

unbuffered_channel_put(t) ==
  /\ t \in Producers
  /\ \/ /\ pc[t] = "idle"           \* the thread's one call
        /\ op[t] = "none"
        /\ nextItem <= MaxItems
        /\ arg' = [arg EXCEPT ![t] = nextItem]
        /\ nextItem' = nextItem + 1
        /\ op' = [op EXCEPT ![t] = "put"]
        /\ pc' = [pc EXCEPT ![t] = "put_lock"]
        /\ UNCHANGED <<val_, ready_, mutex_, cv_, res, sent, received>>
     \/ /\ Lock(t, "put_lock", "put_wait")
        /\ UNCHANGED <<val_, ready_, cv_, op, res, arg, nextItem, sent, received>>
     \/ /\ pc[t] = "put_wait"       \* predicate !ready_ false: wait on cv_
        /\ ready_
        /\ WaitOnCv(t, "put_blocked")
        /\ UNCHANGED <<val_, ready_, op, res, arg, nextItem, sent, received>>
     \/ /\ pc[t] = "put_wait"
        /\ ~ready_
        /\ ready_' = TRUE
        /\ val_' = arg[t]
        /\ sent' = Append(sent, arg[t])
        /\ mutex_' = NoThread
        /\ pc' = [pc EXCEPT ![t] = "put_notify"]
        /\ UNCHANGED <<cv_, op, res, arg, nextItem, received>>
     \/ /\ pc[t] = "put_notify"     \* cv_.notify_one()
        /\ NotifyOneOnCv(t)
        /\ UNCHANGED <<val_, ready_, mutex_, op, arg, nextItem, sent, received>>
  /\ UNCHANGED <<N, buf_, in_, out_, has_val_, closed_, consumers_, producers_,
                 sentAtClose, observed>>

unbuffered_channel_get(t) ==
  /\ t \in Consumers
  /\ \/ /\ pc[t] = "idle"           \* the thread's one call
        /\ op[t] = "none"
        /\ op' = [op EXCEPT ![t] = "get"]
        /\ pc' = [pc EXCEPT ![t] = "get_lock"]
        /\ UNCHANGED <<val_, ready_, mutex_, cv_, res, sent, received>>
     \/ /\ Lock(t, "get_lock", "get_wait")
        /\ UNCHANGED <<val_, ready_, cv_, op, res, sent, received>>
     \/ /\ pc[t] = "get_wait"       \* predicate ready_ false: wait on cv_
        /\ ~ready_
        /\ WaitOnCv(t, "get_blocked")
        /\ UNCHANGED <<val_, ready_, op, res, sent, received>>
     \/ /\ pc[t] = "get_wait"
        /\ ready_
        /\ received' = Append(received, val_)
        /\ ready_' = FALSE
        /\ mutex_' = NoThread
        /\ pc' = [pc EXCEPT ![t] = "get_notify"]
        /\ UNCHANGED <<val_, cv_, op, res, sent>>
     \/ /\ pc[t] = "get_notify"     \* cv_.notify_one()
        /\ NotifyOneOnCv(t)
        /\ UNCHANGED <<val_, ready_, mutex_, op, sent, received>>
  /\ UNCHANGED <<N, buf_, in_, out_, has_val_, closed_, consumers_, producers_,
                 arg, nextItem, sentAtClose, observed>>

\* A spurious return of cv_.wait: the thread re-tests its predicate.
cv_spurious_wakeup(t) ==
  /\ t \in cv_
  /\ cv_' = cv_ \ {t}
  /\ pc' = [pc EXCEPT ![t] = Relock(pc[t])]
  /\ UNCHANGED <<chan, closed_, sync, op, res, arg, nextItem, hist, ready_,
                 observed>>

UnbufferedNext ==
  \E t \in Threads :
    \/ unbuffered_channel_put(t)
    \/ unbuffered_channel_get(t)
    \/ cv_spurious_wakeup(t)

\* Every thread makes its call and a thread that can take a step of its call
\* again and again eventually takes it; spurious wake-ups are never forced.
UnbufferedSpec ==
  /\ UnbufferedInit
  /\ [][UnbufferedNext]_vars
  /\ \A t \in Threads :
       SF_vars(unbuffered_channel_put(t) \/ unbuffered_channel_get(t))

----------------------------------------------------------------------------
(***************************************************************************)
(* buffered_channel<T, N> (src/buffered_channel.hpp): the ring buf_ with   *)
(* in_ and out_, mutex_ and one condition variable cv_.  The members have  *)
(* no initialisers and the constructor is defaulted, so a default-         *)
(* initialised object starts with indeterminate in_, out_ and cells; the   *)
(* indices are drawn from the ring's range, the cells from Indeterminate.  *)
(***************************************************************************)
Indeterminate == {0, -1}

BufferedInit ==
  /\ N \in 1..MaxN
  /\ buf_ \in [0..(N - 1) -> Indeterminate]
  /\ in_ \in 0..(N - 1)
  /\ out_ \in 0..(N - 1)
  /\ val_ = 0
  /\ has_val_ = FALSE
  /\ closed_ = FALSE
  /\ mutex_ = NoThread
  /\ consumers_ = {}
  /\ producers_ = {}
  /\ pc = [t \in Threads |-> "idle"]
  /\ op = [t \in Threads |-> "none"]
  /\ res = [t \in Threads |-> "none"]
  /\ arg = [t \in Producers |-> 0]
  /\ nextItem = 1
  /\ sent = <<>>
  /\ received = <<>>
  /\ sentAtClose = 0
  /\ ready_ = FALSE
  /\ cv_ = {}
  /\ observed = FALSE

\* get calls made so far: those that took a value and those in progress.
GetCalls == Len(received) + Cardinality({c \in Consumers : pc[c] # "idle"})

buffered_channel_put(t) ==
  /\ t \in Producers
  /\ \/ /\ pc[t] = "idle"
        /\ nextItem <= MaxItems
        /\ arg' = [arg EXCEPT ![t] = nextItem]
        /\ nextItem' = nextItem + 1
        /\ op' = [op EXCEPT ![t] = "put"]
        /\ res' = [res EXCEPT ![t] = "none"]
        /\ pc' = [pc EXCEPT ![t] = "put_lock"]
        /\ UNCHANGED <<buf_, in_, out_, mutex_, cv_, sent, received>>
     \/ /\ Lock(t, "put_lock", "put_wait")
        /\ UNCHANGED <<buf_, in_, out_, cv_, op, res, arg, nextItem, sent,
                       received>>
     \/ /\ pc[t] = "put_wait"       \* predicate is_full() false: wait on cv_
        /\ ~is_full
        /\ WaitOnCv(t, "put_blocked")
        /\ UNCHANGED <<buf_, in_, out_, op, res, arg, nextItem, sent, received>>
     \/ /\ pc[t] = "put_wait"       \* predicate is_full() true: deposit
        /\ is_full
        /\ buf_' = [buf_ EXCEPT ![in_] = arg[t]]
        /\ in_' = Advance(in_)
        /\ sent' = Append(sent, arg[t])
        /\ mutex_' = NoThread
        /\ pc' = [pc EXCEPT ![t] = "put_notify"]
        /\ UNCHANGED <<out_, cv_, op, res, arg, nextItem, received>>
     \/ /\ pc[t] = "put_notify"     \* cv_.notify_one()
        /\ NotifyOneOnCv(t)
        /\ UNCHANGED <<buf_, in_, out_, mutex_, op, arg, nextItem, sent,
                       received>>
  /\ UNCHANGED <<N, val_, has_val_, closed_, consumers_, producers_, ready_,
                 sentAtClose, observed>>

buffered_channel_get(t) ==
  /\ t \in Consumers
  /\ \/ /\ pc[t] = "idle"
        /\ GetCalls < MaxGets
        /\ op' = [op EXCEPT ![t] = "get"]
        /\ res' = [res EXCEPT ![t] = "none"]
        /\ pc' = [pc EXCEPT ![t] = "get_lock"]
        /\ UNCHANGED <<buf_, in_, out_, mutex_, cv_, sent, received>>
     \/ /\ Lock(t, "get_lock", "get_wait")
        /\ UNCHANGED <<buf_, in_, out_, cv_, op, res, sent, received>>
     \/ /\ pc[t] = "get_wait"       \* predicate is_empty() false: wait on cv_
        /\ ~is_empty
        /\ WaitOnCv(t, "get_blocked")
        /\ UNCHANGED <<buf_, in_, out_, op, res, sent, received>>
     \/ /\ pc[t] = "get_wait"       \* predicate is_empty() true: take buf_[out_]
        /\ is_empty
        /\ received' = Append(received, buf_[out_])
        /\ out_' = Advance(out_)
        /\ mutex_' = NoThread
        /\ pc' = [pc EXCEPT ![t] = "get_notify"]
        /\ UNCHANGED <<buf_, in_, cv_, op, res, sent>>
     \/ /\ pc[t] = "get_notify"     \* cv_.notify_one()
        /\ NotifyOneOnCv(t)
        /\ UNCHANGED <<buf_, in_, out_, mutex_, op, sent, received>>
  /\ UNCHANGED <<N, val_, has_val_, closed_, consumers_, producers_, ready_,
                 arg, nextItem, sentAtClose, observed>>

BufferedNext ==
  \E t \in Threads :
    \/ buffered_channel_put(t)
    \/ buffered_channel_get(t)
    \/ cv_spurious_wakeup(t)

BufferedSpec == BufferedInit /\ [][BufferedNext]_vars

----------------------------------------------------------------------------
\* Vocabulary of the properties.

Range(s) == {s[i] : i \in DOMAIN s}

Count(s, x) == Cardinality({i \in DOMAIN s : s[i] = x})

IsPrefix(s, r) == Len(s) <= Len(r) /\ \A i \in DOMAIN s : s[i] = r[i]

\* Items deposited and not yet taken.
Held == Len(sent) - Len(received)

ChannelEmpty == IF is_buffered THEN is_empty ELSE ~has_val_

Returned(t, o, r) == pc[t] = "idle" /\ op[t] = o /\ res[t] = r

\* Thread t returns from call o with result r in this step.
Returns(t, o, r) ==
  /\ op'[t] = o
  /\ res'[t] = r
  /\ pc'[t] = "idle"
  /\ <<pc[t], op[t], res[t]>> # <<pc'[t], op'[t], res'[t]>>

----------------------------------------------------------------------------
\* C1 (no loss): when every item was deposited before close and every
\* consumer has called get until it reported an error, the multiset of
\* received items equals the multiset of sent items.
NoLoss ==
  ( /\ closed_
    /\ sentAtClose = Len(sent)
    /\ \A p \in Producers : pc[p] = "idle"
    /\ \A c \in Consumers : Returned(c, "get", "channel_closed") )
  => \A x \in 1..MaxItems : Count(received, x) = Count(sent, x)

\* C2 (drain-after-close): a blocking get never fails while an item remains
\* in the channel.
DrainAfterClose ==
  [][\A c \in Consumers :
       Returns(c, "get", "channel_closed") => ChannelEmpty]_vars

\* C3 (FIFO): on a buffered channel the k-th successful receive (get or
\* try_get) returns the item of the k-th successful put.
FIFO == is_buffered => IsPrefix(received, sent)

\* Three items received by get and by try_get, deposited in an order that
\* differs from the order of the put calls.
FIFOWitness ==
  /\ is_buffered
  /\ Len(received) = 3
  /\ received # <<1, 2, 3>>
  /\ \E c, d \in Consumers : Returned(c, "get", "ok") /\ Returned(d, "try_get", "ok")

\* C4 (no duplication): every received item was deposited, and no deposited
\* item is received twice, in buffered and unbuffered mode.
NoDuplication ==
  /\ \A i \in DOMAIN received : received[i] \in Range(sent)
  /\ \A i, j \in DOMAIN received : i # j => received[i] # received[j]

\* Two consumers, one in get and one in try_get, have both taken an item
\* from an unbuffered channel.
NoDuplicationWitness ==
  /\ ~is_buffered
  /\ Len(received) = 3
  /\ \E c, d \in Consumers : Returned(c, "get", "ok") /\ Returned(d, "try_get", "ok")

\* C5 (rendezvous handoff): no put on an unbuffered channel has returned
\* while its item is still in the cell.
RendezvousHandoff ==
  \A p \in Producers :
    (~is_buffered /\ Returned(p, "put", "ok")) => ~(has_val_ /\ val_ = arg[p])

\* C6 (closure wakes waiters): a thread blocked in put or get once the
\* channel is closed eventually returns.
ClosureWakesWaiters ==
  \A t \in Threads :
    ((pc[t] \in {"put_blocked", "get_blocked"}) /\ closed_) ~> (pc[t] = "idle")

\* C7 (send-after-close): whatever an idle producer does on a closed channel
\* is a put that fails with the runtime_error and leaves in_, out_, buf_,
\* has_val_ and val_ as they were.
SendAfterClose ==
  [][\A p \in Producers :
       ( /\ closed_
         /\ pc[p] = "idle"
         /\ <<pc[p], op[p], res[p], arg[p]>> # <<pc'[p], op'[p], res'[p], arg'[p]>> )
       => (Returns(p, "put", "runtime_error") /\ UNCHANGED chan)]_vars

\* A put has failed on a closed channel that still holds an item.
SendAfterCloseWitness ==
  /\ closed_
  /\ Held > 0
  /\ \E p \in Producers : Returned(p, "put", "runtime_error")

\* C8 as stated (full means N items): on an open buffered channel a put
\* waits only when N items are buffered.
FullMeansN ==
  [][\A p \in Producers :
       (is_buffered /\ ~closed_ /\ pc[p] = "put_wait" /\ pc'[p] = "put_blocked")
       => Held = N]_vars

\* C8 amended (full means N - 1 items): on an open buffered channel a put
\* deposits without waiting when fewer than N - 1 items are buffered and
\* waits exactly when N - 1 items are buffered.
FullMeansNMinusOne ==
  [][\A p \in Producers :
       (is_buffered /\ ~closed_ /\ pc[p] = "put_wait" /\ pc'[p] # "put_wait")
       => /\ (pc'[p] = "put_notify") <=> (Held < N - 1)
          /\ (pc'[p] = "put_blocked") <=> (Held = N - 1)]_vars

\* A producer waits on an open channel of three cells holding two items.
FullWitness ==
  /\ N = 3
  /\ ~closed_
  /\ Held = 2
  /\ \E p \in Producers : pc[p] = "put_blocked"

\* C9 (bounded memory): on a buffered channel at most N items are held, in_
\* and out_ stay in [0, N), and every item not yet received is still in the
\* cell it was deposited in.
BoundedMemory ==
  is_buffered =>
    /\ Held \in 0..N
    /\ in_ \in 0..(N - 1)
    /\ out_ \in 0..(N - 1)
    /\ \A k \in (Len(received) + 1)..Len(sent) : buf_[(k - 1) % N] = sent[k]

\* The ring has wrapped around and is full: one producer has just deposited
\* and the other waits.
BoundedMemoryWitness ==
  /\ is_buffered
  /\ in_ < out_
  /\ is_full
  /\ \E p, q \in Producers : pc[p] = "put_blocked" /\ pc[q] = "put_notify"

\* C10 (try_get on a closed channel): try_get fails with the closed error
\* only when the channel is empty.
TryGetDrains ==
  [][\A c \in Consumers :
       Returns(c, "try_get", "channel_closed") => ChannelEmpty]_vars

\* C11 (try_get would block): a try_get that holds the mutex on an empty,
\* open channel returns would_block in that step and leaves in_, out_,
\* buf_, has_val_, val_ and closed_ as they were; a thread in try_get is
\* never put on a wait set.
TryGetWouldBlock ==
  [][\A c \in Consumers :
       /\ (pc[c] = "try_body" /\ pc'[c] # "try_body" /\ ~closed_ /\ Held = 0)
          => (Returns(c, "try_get", "would_block") /\ UNCHANGED <<chan, closed_>>)
       /\ op'[c] = "try_get" => c \notin consumers_']_vars

\* The only call ever made on the channel is a try_get, and it returned
\* would_block.
TryGetWouldBlockWitness ==
  /\ ~closed_
  /\ Held = 0
  /\ \E c \in Consumers :
       /\ Returned(c, "try_get", "would_block")
       /\ \A t \in Threads \ {c} : op[t] = "none"

\* C12 as stated (shape selection): is_buffered() holds exactly when N >= 1,
\* and a channel with N >= 1 keeps its items in the ring, never in the cell.
ShapeSelection ==
  /\ is_buffered <=> N >= 1
  /\ N >= 1 => ~has_val_

\* C12 amended (shape selection): is_buffered() holds exactly when N >= 2.
\* A channel with N >= 2 keeps its items in the ring and never touches the
\* cell; a channel with N = 0 or N = 1 keeps its item in the cell and never
\* touches the ring.
ShapeSelectionFromTwo ==
  /\ is_buffered <=> N >= 2
  /\ N >= 2 => /\ ~has_val_
               /\ val_ = 0
               /\ Held = (in_ - out_ + N) % N
  /\ N <= 1 => /\ in_ = 0
               /\ out_ = 0
               /\ \A i \in DOMAIN buf_ : buf_[i] = 0
               /\ Held = IF has_val_ THEN 1 ELSE 0

\* A put on a channel with N = 1 has returned and its item is in the cell.
ShapeWitness ==
  /\ N = 1
  /\ has_val_
  /\ \E p \in Producers : Returned(p, "put", "ok") /\ val_ = arg[p]

\* C13 (monotonic closure): closed_ starts false and never goes back to
\* false, and once an is_closed() call has returned true no later call
\* returns false.
MonotonicClosure ==
  /\ ~closed_
  /\ [][(closed_ => closed_') /\ (observed => observed')]_vars

\* is_closed() has returned true and a put has failed on the closed channel.
MonotonicClosureWitness ==
  /\ observed
  /\ \E p \in Producers : Returned(p, "put", "runtime_error")
  /\ \E c \in Consumers : Returned(c, "get", "channel_closed")

\* C14 (idempotent close): a close call sets closed_ and touches nothing
\* else (in_, out_, buf_, has_val_, val_, the mutex, the wait sets and the
\* items sent and received), and a close call on a closed channel changes
\* nothing at all.
IdempotentClose ==
  \A t \in Threads :
    /\ ~ENABLED (close(t) /\ ~closed_')
    /\ ~ENABLED (close(t) /\ <<chan, sync, pc, sent, received>>' # <<chan, sync, pc, sent, received>>)
    /\ closed_ => ~ENABLED (close(t) /\ vars' # vars)

\* The channel was closed while it held an item, and a thread is free to
\* call close again.
IdempotentCloseWitness ==
  /\ closed_
  /\ sentAtClose > 0
  /\ Held > 0
  /\ \E t \in Threads : ENABLED close(t)

\* C15 (no deposit after closure): every deposit into buf_ or val_ happens
\* in a state where closed_ is false.
NoDepositAfterClose ==
  [][sent' # sent => ~closed_]_vars

\* C17 (single-lock discipline): a thread that starts put, get or try_get
\* (the step that reads closed_) holds mutex_, and closed_ is written only
\* while mutex_ is held.
SingleLockDiscipline ==
  [][/\ \A t \in Threads :
          (pc[t] = "idle" /\ <<pc[t], op[t], res[t]>> # <<pc'[t], op'[t], res'[t]>>)
          => mutex_ = t
     /\ closed_' # closed_ => mutex_ # NoThread]_vars

\* C18 (no leaked lock): no thread that is outside a call, or that has left
\* the critical section of its call, holds mutex_; and a try_get that finds
\* mutex_ taken returns would_block in that step, without joining a wait set
\* and without changing the channel, closed_, the lock or the wait sets.
NoLeakedLock ==
  [][/\ \A t \in Threads :
          pc'[t] \in {"idle", "put_notify", "get_notify", "try_notify",
                      "put_blocked", "get_blocked"} => mutex_' # t
     /\ \A c \in Consumers :
          (pc[c] = "try_lock" /\ pc'[c] # "try_lock" /\ mutex_ # NoThread)
          => (Returns(c, "try_get", "would_block") /\ UNCHANGED <<chan, closed_, sync>>)]_vars

\* A try_get has returned would_block because another thread, still in its
\* critical section, holds the lock of a channel that holds an item.
NoLeakedLockWitness ==
  /\ Held > 0
  /\ \E c \in Consumers, t \in Threads :
       /\ Returned(c, "try_get", "would_block")
       /\ mutex_ = t
       /\ t # c

\* C16 (progress without closure): in main.cpp's workload on a channel that
\* is never closed, every put and every get eventually returns.
DriverProgress ==
  \A t \in Threads : <>(pc[t] = "idle" /\ res[t] = "ok")

\* All four calls have returned; the producer that called put second
\* deposited first.
DriverProgressWitness ==
  /\ \A t \in Threads : pc[t] = "idle" /\ res[t] = "ok"
  /\ Len(received) = 2
  /\ sent[1] = 2

\* C19 (unbuffered_channel progress): with as many put calls as get calls,
\* every put and every get on an unbuffered_channel eventually returns.
UnbufferedProgress ==
  \A t \in Threads : <>(pc[t] = "idle" /\ res[t] = "ok")

\* C20 (buffered_channel get): get reads buf_[out_] only while the ring is
\* not empty (in_ # out_), and the value it returns was deposited by a put
\* and not returned by an earlier get.
BufferedGetValid ==
  [][received' # received =>
       /\ in_ # out_
       /\ received'[Len(received')] \in Range(sent) \ Range(received)]_vars

====
